---- MODULE Spec2Model ----
(***************************************************************************)
(* Aeon2DEngine: the audio players (AudioPlayer, MusicPlayer, SoundPlayer), *)
(* the keyed resource cache (ResourceHolder), AudioProperties and the      *)
(* DebugLogger, as a state machine over the calls a game makes.            *)
(*                                                                         *)
(* Floats are modelled by integers; the volumes, positions and distances   *)
(* drawn below are chosen so that every product g * v is a multiple of 100 *)
(* and the float arithmetic of the source is exact on them.                *)
(* minDistance3d_ = sqrtf(d*d + z*z) is kept as its square d*d + z*z (a    *)
(* non-negative real is determined by its square), so no rounding of the   *)
(* square root has to be modelled.                                         *)
(***************************************************************************)
EXTENDS Integers, Sequences, FiniteSets, TLC

VARIABLES
    debug,             \* the build: TRUE when compiled with _DEBUG
    drained,           \* what the last DebugLogger::getCachedMessages returned
    math,              \* the call of Math::pascalTriangle: n, i, row, its position
    discarded,         \* the resource the last load of the game's ResourceHolder
                       \* opened and destroyed without storing it (NoFile: none)
    crashed,           \* undefined behaviour has ended the process
    messages_,         \* DebugLogger::messages_
    listener,          \* sf::Listener position <<x, y, z>> (process-wide)
    globalVolume_,     \* AudioPlayer::globalVolume_ of each player
    tracks_,           \* MusicPlayer::tracks_        (std::map<T, MusicTrack>)
    soundBuffers_,     \* SoundPlayer::soundBuffers_  (ResourceHolder::resourceMap_)
    soundProperties_,  \* SoundPlayer::soundProperties_ (std::map<T, AudioProperties>)
    sounds_,           \* SoundPlayer::sounds_        (std::list<SoundEffect>)
    resourceMap_,      \* ResourceHolder::resourceMap_ of a holder the game owns
    gameProperties,    \* an AudioProperties object the game owns
    constructed,       \* the game has constructed its players
    lastOp,            \* history: the call that produced this state
    statusBefore,      \* history: the tracks' statuses before the last
                       \* MusicPlayer::pause(true), while only pause(flag) calls
                       \* have followed it; empty otherwise
    stored,            \* history: the ids for which a ResourceHolder::load has
                       \* succeeded with no ResourceHolder::unload(id) since
    returned           \* history: what the last call returned to its caller

vars == <<debug, crashed, messages_, listener, globalVolume_, tracks_,
          soundBuffers_, soundProperties_, sounds_, resourceMap_, lastOp,
          statusBefore, stored, returned, gameProperties,
          constructed, drained, math, discarded>>

musicVars == <<globalVolume_, tracks_>>
soundVars == <<soundBuffers_, soundProperties_, sounds_>>
playerVars == <<musicVars, soundVars>>

-----------------------------------------------------------------------------
(* Bounds and input sets *)

\* longest debug log explored (cacheMessage is unbounded in the source)
MaxLog == 1
\* longest list of active sound effects explored (sounds_ is unbounded)
MaxSounds == 2

\* the values of the enum the players are instantiated with, in enum order
ID == {1, 2}

\* a file of the asset directory that opens, and one that does not
GoodFiles == {"a.ogg"}
BadFiles == {"missing.ogg"}
Files == GoodFiles \cup BadFiles
NoFile == "none"

\* arguments of setGlobalVolume: below, inside and above [0, 100]
VolumeInputs == {-10, 50, 150}
\* 2D positions passed to play / setMusicSourcePosition / setListenerPosition
SourcePositions == {<<1, 2>>}
ListenerPositions == {<<3, 4>>}

Status == {"Stopped", "Paused", "Playing"}

-----------------------------------------------------------------------------
(* <cmath> helpers and std::map *)

fminf(a, b) == IF a < b THEN a ELSE b
fmaxf(a, b) == IF a > b THEN a ELSE b

\* g * v / 100.f on values whose product is a multiple of 100
ScaleVolume(g, v) == (g * v) \div 100

MapFind(m, k) == k \in DOMAIN m
\* mutant: insert replaces the value of a key that is present
MapInsert_overwrite(m, k, v) ==
    [x \in DOMAIN m \cup {k} |-> IF x = k THEN v ELSE m[x]]
MapInsert(m, k, v) ==
    IF k \in DOMAIN m THEN m
    ELSE [x \in DOMAIN m \cup {k} |-> IF x = k THEN v ELSE m[x]]
MapErase(m, k) == [x \in DOMAIN m \ {k} |-> m[x]]
\* the key std::map::rbegin() points at: the largest key
MapRbegin(m) == CHOOSE k \in DOMAIN m : \A x \in DOMAIN m : x <= k
EmptyMap == [x \in {} |-> 0]

-----------------------------------------------------------------------------
(* DebugLogger *)

DebugLogger_cacheMessage(log, message) == Append(log, message)

\* what a handler compiled with _DEBUG leaves in the log; nothing otherwise
LogIfDebug(log, message) ==
    IF debug THEN DebugLogger_cacheMessage(log, message) ELSE log

\* room for one more message (the explored log is bounded)
CanLog == debug => Len(messages_) < MaxLog

-----------------------------------------------------------------------------
(* AudioProperties *)

AudioProperties_setVolume(p, volume) ==
    [p EXCEPT !.volume_ = fmaxf(fminf(volume, 100), 0)]

\* mutant: the attenuation is stored as given
AudioProperties_setAttenuation_unclamped(p, attenuation) ==
    [p EXCEPT !.attenuation_ = attenuation]

AudioProperties_setAttenuation(p, attenuation) ==
    [p EXCEPT !.attenuation_ = fmaxf(attenuation, 0)]

\* z is sf::Listener::getPosition().z at the time of the call
AudioProperties_setMinDistance2D(p, minDistance2d, z) ==
    LET d == fmaxf(minDistance2d, 1)
    IN  [p EXCEPT !.minDistance2d_ = d, !.minDistance3d_ = d * d + z * z]

AudioProperties_setPitch(p, pitch) == [p EXCEPT !.pitch_ = pitch]

AudioProperties_setRelativeToListener(p, flag) ==
    [p EXCEPT !.relativeToListener_ = flag]

AudioProperties(volume, attenuation, pitch, minDistance2d, relativeToListener, z) ==
    LET p0 == [volume_ |-> 0, attenuation_ |-> 0, pitch_ |-> pitch,
               minDistance2d_ |-> 0, minDistance3d_ |-> 0,
               relativeToListener_ |-> relativeToListener]
    IN  AudioProperties_setMinDistance2D(
            AudioProperties_setAttenuation(
                AudioProperties_setVolume(p0, volume), attenuation),
            minDistance2d, z)

\* AudioProperties(): volume 100, attenuation 1, pitch 1, minDistance2d 1, not relative
DefaultAudioProperties(z) == AudioProperties(100, 1, 1, 1, FALSE, z)

\* the properties objects callers pass to load, built while the listener is
\* at its current depth
PropertiesInputs == { AudioProperties(40, 35, 2, 250, TRUE, listener[3]) }

-----------------------------------------------------------------------------
(* History and undefined behaviour *)

\* what a call that returns void, or a call that is not looked at, returns
NoReturn == "void"

\* no call of Math::pascalTriangle has been made
NoCall == [n |-> 0, i |-> 0, row |-> <<>>, pc |-> "idle", overflowed |-> FALSE]

\* only ResourceHolder::get hands a value back that is recorded here, and only
\* ResourceHolder::load and unload change what is recorded as stored
Recorded(op) ==
    /\ IF op = "ResourceHolder::get" THEN TRUE ELSE returned' = NoReturn
    /\ IF op = "getCachedMessages" THEN TRUE ELSE drained' = <<>>
    /\ IF op = "Math::pascalTriangle" THEN TRUE ELSE UNCHANGED math
    /\ IF op = "ResourceHolder::load" THEN TRUE ELSE discarded' = NoFile
    /\ IF op \in {"ResourceHolder::load", "ResourceHolder::unload"} THEN TRUE
       ELSE UNCHANGED stored

\* the players and the holder take the game's AudioProperties by const
\* reference, and none of their calls constructs a player
GameFrame == UNCHANGED <<gameProperties, constructed>>

\* the call that was made last
Called(op) ==
    lastOp' = op /\ statusBefore' = EmptyMap /\ Recorded(op) /\ GameFrame

\* An unchecked lookup of a missing key (release build: find(id)->second on
\* end(), erase(end())), or a null reference: the process dies, or it goes on
\* with the state the handler had built so far.
UndefinedBehaviour == crashed' \in BOOLEAN

-----------------------------------------------------------------------------
(* AudioPlayer<T> *)

\* AudioPlayer<T>::AudioPlayer(): the listener position every constructor sets
ListenerAtConstruction == <<0, 0, 300>>
\* sf::Listener before any player exists: SFML's default position
ListenerAtStart == <<0, 0, 0>>

\* mutant: the global volume is only bounded from above
AudioPlayer_setGlobalVolume_upperOnly(globalVolume) == fminf(globalVolume, 100)

AudioPlayer_setGlobalVolume(globalVolume) == fmaxf(fminf(globalVolume, 100), 0)

AudioPlayer_getListenerPosition == <<listener[1], -listener[2]>>

\* mutant: the y coordinate is passed on without the sign flip
AudioPlayer_setListenerPosition_noFlip(pos) ==
    /\ ~crashed
    /\ listener' = <<pos[1], pos[2], listener[3]>>
    /\ Called("setListenerPosition")
    /\ UNCHANGED <<debug, crashed, messages_, playerVars, resourceMap_>>

AudioPlayer_setListenerPosition(pos) ==
    /\ ~crashed
    /\ listener' = <<pos[1], -pos[2], listener[3]>>
    /\ Called("setListenerPosition")
    /\ UNCHANGED <<debug, crashed, messages_, playerVars, resourceMap_>>

\* mutant: the copy is returned and the buffer is left as it is
DebugLogger_getCachedMessages_withoutClear ==
    /\ ~crashed
    /\ drained' = messages_
    /\ UNCHANGED messages_
    /\ Called("getCachedMessages")
    /\ UNCHANGED <<debug, crashed, listener, playerVars, resourceMap_>>

DebugLogger_getCachedMessages ==
    /\ ~crashed
    /\ drained' = messages_
    /\ messages_' = <<>>
    /\ Called("getCachedMessages")
    /\ UNCHANGED <<debug, crashed, listener, playerVars, resourceMap_>>

-----------------------------------------------------------------------------
(* sf::Music as MusicPlayer uses it *)

\* MusicTrack(volume): a default-constructed sf::Music and the nominal volume
MusicTrack(volume) ==
    [file |-> NoFile, status |-> "Stopped", volume |-> 100, loop |-> FALSE,
     position |-> <<0, 0, 0>>, attenuation |-> 1, pitch |-> 1,
     minDistance |-> 1, relative |-> FALSE, VOLUME |-> volume]

openFromFile(filepath) == filepath \in GoodFiles

\* sf::Music::play(): a stream that was never opened does not start
Music_play(t) == IF t.file = NoFile THEN t ELSE [t EXCEPT !.status = "Playing"]
\* sf::Music::pause(): only a playing stream becomes paused
Music_pause(t) == IF t.status = "Playing" THEN [t EXCEPT !.status = "Paused"] ELSE t
Music_stop(t) == [t EXCEPT !.status = "Stopped"]

-----------------------------------------------------------------------------
(* MusicPlayer<T>: the new value of tracks_ after each handler *)

\* mutant: play starts the track without setting its volume
PlayTrack_unscaled(tracks, position, id, loop) ==
    [tracks EXCEPT ![id] =
        Music_play([tracks[id] EXCEPT
            !.position = <<position[1], -position[2], 0>>,
            !.loop = loop])]

PlayTrack(tracks, position, id, loop) ==
    LET track == tracks[id]
    IN  [tracks EXCEPT ![id] =
            Music_play([track EXCEPT
                !.position = <<position[1], -position[2], 0>>,
                !.loop = loop,
                !.volume = ScaleVolume(globalVolume_.music, track.VOLUME)])]

\* mutant: pause(false) starts every track, whatever its status
PauseAllTracks_resumeAll(tracks, flag) ==
    [k \in DOMAIN tracks |->
        IF flag
        THEN IF tracks[k].status = "Playing" THEN Music_pause(tracks[k]) ELSE tracks[k]
        ELSE Music_play(tracks[k])]

PauseAllTracks(tracks, flag) ==
    [k \in DOMAIN tracks |->
        IF flag
        THEN IF tracks[k].status = "Playing" THEN Music_pause(tracks[k]) ELSE tracks[k]
        ELSE IF tracks[k].status = "Paused" THEN Music_play(tracks[k]) ELSE tracks[k]]

\* mutant: the status of the track is not looked at
PauseTrack_unconditional(tracks, id, flag) ==
    IF flag THEN [tracks EXCEPT ![id].status = "Paused"]
    ELSE [tracks EXCEPT ![id] = Music_play(@)]

PauseTrack(tracks, id, flag) ==
    IF flag /\ tracks[id].status = "Playing"
    THEN [tracks EXCEPT ![id] = Music_pause(@)]
    ELSE IF ~flag /\ tracks[id].status = "Paused"
         THEN [tracks EXCEPT ![id] = Music_play(@)]
         ELSE tracks

\* mutant: stop() stops the playing tracks only
StopAllTracks_playingOnly(tracks) ==
    [k \in DOMAIN tracks |->
        IF tracks[k].status = "Playing" THEN Music_stop(tracks[k]) ELSE tracks[k]]

StopAllTracks(tracks) == [k \in DOMAIN tracks |-> Music_stop(tracks[k])]

StopTrack(tracks, id) == [tracks EXCEPT ![id] = Music_stop(@)]

\* mutant: only the tracks that are playing are rescaled
RescaleTracks_playingOnly(tracks, GLOBAL_VOLUME) ==
    [k \in DOMAIN tracks |->
        IF tracks[k].status = "Playing"
        THEN [tracks[k] EXCEPT !.volume = ScaleVolume(GLOBAL_VOLUME, tracks[k].VOLUME)]
        ELSE tracks[k]]

RescaleTracks(tracks, GLOBAL_VOLUME) ==
    [k \in DOMAIN tracks |->
        [tracks[k] EXCEPT !.volume = ScaleVolume(GLOBAL_VOLUME, tracks[k].VOLUME)]]

\* setupTrack works on tracks_.rbegin(), the entry with the largest key:
\* openFromFile stops that stream and opens the file on it; a failed open
\* erases tracks_.rbegin()->first.
setupTrack(tracks, properties, filepath) ==
    LET k == MapRbegin(tracks)
    IN  IF openFromFile(filepath)
        THEN [tracks EXCEPT ![k] =
                [@ EXCEPT !.file = filepath, !.status = "Stopped",
                          !.attenuation = properties.attenuation_,
                          !.pitch = properties.pitch_,
                          !.minDistance = properties.minDistance3d_,
                          !.relative = properties.relativeToListener_]]
        ELSE MapErase(tracks, k)

\* mutant: load without the find(id) guard
LoadTrack_noFind(tracks, filepath, properties, id) ==
    setupTrack(MapInsert(tracks, id, MusicTrack(properties.volume_)),
               properties, filepath)

LoadTrack(tracks, filepath, properties, id) ==
    IF ~MapFind(tracks, id)
    THEN setupTrack(MapInsert(tracks, id, MusicTrack(properties.volume_)),
                    properties, filepath)
    ELSE tracks

\* mutant: unload erases the entry only when the track is stopped
UnloadTrack_stoppedOnly(tracks, id) ==
    IF tracks[id].status = "Stopped" THEN MapErase(tracks, id) ELSE tracks

\* tracks_.erase(found)
UnloadTrack(tracks, id) == MapErase(tracks, id)

-----------------------------------------------------------------------------
(* MusicPlayer<T>: the handlers *)

MusicFrame == UNCHANGED <<debug, listener, soundVars, resourceMap_>>

\* mutant: the debug build returns without caching the message
MusicMiss_silent(message) == UNCHANGED <<crashed, messages_, musicVars>>

\* an id-keyed handler called with an id that has no track
MusicMiss(message) ==
    IF debug
    THEN /\ CanLog
         /\ messages_' = DebugLogger_cacheMessage(messages_, message)
         /\ UNCHANGED <<crashed, musicVars>>
    ELSE /\ UndefinedBehaviour
         /\ UNCHANGED <<messages_, musicVars>>

MusicPlayer_play(position, id, loop) ==
    /\ ~crashed
    /\ Called("MusicPlayer::play")
    /\ MusicFrame
    /\ IF ~MapFind(tracks_, id)
       THEN MusicMiss("ae::MusicPlayer<T>::play - Unable to find music track")
       ELSE /\ tracks_' = PlayTrack(tracks_, position, id, loop)
            /\ UNCHANGED <<crashed, messages_, globalVolume_>>

MusicPlayer_playAtListener(id, loop) ==
    MusicPlayer_play(AudioPlayer_getListenerPosition, id, loop)

MusicPlayer_pauseAll(flag) ==
    /\ ~crashed
    /\ lastOp' = IF flag THEN "MusicPlayer::pause(true)" ELSE "MusicPlayer::pause(false)"
    /\ statusBefore' = IF flag THEN [k \in DOMAIN tracks_ |-> tracks_[k].status]
                       ELSE statusBefore
    /\ Recorded("MusicPlayer::pause")
    /\ GameFrame
    /\ MusicFrame
    /\ tracks_' = PauseAllTracks(tracks_, flag)
    /\ UNCHANGED <<crashed, messages_, globalVolume_>>

MusicPlayer_pause(id, flag) ==
    /\ ~crashed
    /\ Called("MusicPlayer::pause(id, flag)")
    /\ MusicFrame
    /\ IF ~MapFind(tracks_, id)
       THEN MusicMiss("ae::MusicPlayer<T>::pause - Unable to find music track")
       ELSE /\ tracks_' = PauseTrack(tracks_, id, flag)
            /\ UNCHANGED <<crashed, messages_, globalVolume_>>

MusicPlayer_stopAll ==
    /\ ~crashed
    /\ Called("MusicPlayer::stop()")
    /\ MusicFrame
    /\ tracks_' = StopAllTracks(tracks_)
    /\ UNCHANGED <<crashed, messages_, globalVolume_>>

MusicPlayer_stop(id) ==
    /\ ~crashed
    /\ Called("MusicPlayer::stop(id)")
    /\ MusicFrame
    /\ IF ~MapFind(tracks_, id)
       THEN MusicMiss("ae::MusicPlayer<T>::stop - Unable to find music track")
       ELSE /\ tracks_' = StopTrack(tracks_, id)
            /\ UNCHANGED <<crashed, messages_, globalVolume_>>

MusicPlayer_setMusicSourcePosition(position, id) ==
    /\ ~crashed
    /\ Called("MusicPlayer::setMusicSourcePosition")
    /\ MusicFrame
    /\ IF ~MapFind(tracks_, id)
       THEN MusicMiss("ae::MusicPlayer<T>::setMusicSourcePosition - Unable to find music track")
       ELSE /\ tracks_' = [tracks_ EXCEPT ![id].position =
                                <<position[1], -position[2], 0>>]
            /\ UNCHANGED <<crashed, messages_, globalVolume_>>

\* const: a hit only reads the status
MusicPlayer_getMusicStatus(id) ==
    /\ ~crashed
    /\ Called("MusicPlayer::getMusicStatus")
    /\ MusicFrame
    /\ IF ~MapFind(tracks_, id)
       THEN MusicMiss("ae::MusicPlayer<T>::getMusicStatus - Unable to find music track")
       ELSE UNCHANGED <<crashed, messages_, musicVars>>

\* mutant: the global volume is one value shared by every player
MusicPlayer_setGlobalVolume_shared(globalVolume) ==
    /\ ~crashed
    /\ Called("MusicPlayer::setGlobalVolume")
    /\ MusicFrame
    /\ LET GLOBAL_VOLUME == AudioPlayer_setGlobalVolume(globalVolume)
       IN  /\ globalVolume_' = [music |-> GLOBAL_VOLUME, sound |-> GLOBAL_VOLUME]
           /\ tracks_' = RescaleTracks(tracks_, GLOBAL_VOLUME)
    /\ UNCHANGED <<crashed, messages_>>

MusicPlayer_setGlobalVolume(globalVolume) ==
    /\ ~crashed
    /\ Called("MusicPlayer::setGlobalVolume")
    /\ MusicFrame
    /\ LET GLOBAL_VOLUME == AudioPlayer_setGlobalVolume(globalVolume)
       IN  /\ globalVolume_' = [globalVolume_ EXCEPT !.music = GLOBAL_VOLUME]
           /\ tracks_' = RescaleTracks(tracks_, GLOBAL_VOLUME)
    /\ UNCHANGED <<crashed, messages_>>

MusicPlayer_load(filepath, properties, id) ==
    /\ ~crashed
    /\ Called("MusicPlayer::load")
    /\ MusicFrame
    /\ tracks_' = LoadTrack(tracks_, filepath, properties, id)
    /\ IF MapFind(tracks_, id)
       THEN /\ CanLog
            /\ messages_' = LogIfDebug(messages_,
                  "ae::MusicPlayer<T>::load - Attempt to load in music track that's already loaded in")
       ELSE IF ~openFromFile(filepath)
            THEN /\ CanLog
                 /\ messages_' = LogIfDebug(messages_,
                       "ae::MusicPlayer<T>::loadTrack - Failed to open \"" \o filepath \o "\"")
            ELSE UNCHANGED messages_
    /\ UNCHANGED <<crashed, globalVolume_>>

\* load(filepath, id): AudioProperties properties; built inside the call
MusicPlayer_loadDefault(filepath, id) ==
    MusicPlayer_load(filepath, DefaultAudioProperties(listener[3]), id)

MusicPlayer_unload(id) ==
    /\ ~crashed
    /\ Called("MusicPlayer::unload")
    /\ MusicFrame
    /\ IF ~MapFind(tracks_, id)
       THEN MusicMiss("ae::MusicPlayer<T>::unload - The ID provided isn't associated with any music track")
       ELSE /\ tracks_' = UnloadTrack(tracks_, id)
            /\ UNCHANGED <<crashed, messages_, globalVolume_>>

\* the audio engine: a playing stream that does not loop reaches its end
MusicFinished(id) ==
    /\ ~crashed
    /\ MapFind(tracks_, id)
    /\ tracks_[id].status = "Playing"
    /\ ~tracks_[id].loop
    /\ tracks_' = [tracks_ EXCEPT ![id].status = "Stopped"]
    /\ Called("music finished")
    /\ MusicFrame
    /\ UNCHANGED <<crashed, messages_, globalVolume_>>

-----------------------------------------------------------------------------
(* A game that owns one MusicPlayer (and one default SoundPlayer) *)

InitCommon ==
    /\ debug \in BOOLEAN
    /\ crashed = FALSE
    /\ messages_ = <<>>
    /\ drained = <<>>
    /\ math = NoCall
    /\ discarded = NoFile
    /\ listener = ListenerAtConstruction
    /\ globalVolume_ = [music |-> 100, sound |-> 100]
    /\ tracks_ = EmptyMap
    /\ soundBuffers_ = EmptyMap
    /\ soundProperties_ = EmptyMap
    /\ sounds_ = <<>>
    /\ resourceMap_ = EmptyMap
    /\ lastOp = "construct"
    /\ statusBefore = EmptyMap
    /\ stored = {}
    /\ returned = NoReturn
    /\ gameProperties = DefaultAudioProperties(listener[3])
    /\ constructed = TRUE

MusicInit == InitCommon

\* The calls of a game that keeps to the ids it has loaded (a call with an id
\* that has no entry is explored by MissSpec).
MusicNext ==
    \/ \E id \in DOMAIN tracks_, loop \in BOOLEAN, pos \in SourcePositions :
            MusicPlayer_play(pos, id, loop)
    \/ \E id \in DOMAIN tracks_, loop \in BOOLEAN : MusicPlayer_playAtListener(id, loop)
    \/ \E flag \in BOOLEAN : MusicPlayer_pauseAll(flag)
    \/ \E id \in DOMAIN tracks_, flag \in BOOLEAN : MusicPlayer_pause(id, flag)
    \/ MusicPlayer_stopAll
    \/ \E id \in DOMAIN tracks_ : MusicPlayer_stop(id)
    \/ \E id \in DOMAIN tracks_, pos \in SourcePositions :
            MusicPlayer_setMusicSourcePosition(pos, id)
    \/ \E id \in DOMAIN tracks_ : MusicPlayer_getMusicStatus(id)
    \/ \E g \in VolumeInputs : MusicPlayer_setGlobalVolume(g)
    \/ \E id \in ID, f \in Files, p \in PropertiesInputs : MusicPlayer_load(f, p, id)
    \/ \E id \in ID, f \in Files : MusicPlayer_loadDefault(f, id)
    \/ \E id \in DOMAIN tracks_ : MusicPlayer_unload(id)
    \/ \E id \in ID : MusicFinished(id)
    \/ messages_ # <<>> /\ DebugLogger_getCachedMessages

MusicSpec == MusicInit /\ [][MusicNext]_vars

-----------------------------------------------------------------------------
(* ResourceHolder<ID, Res>: a resource is named by the file it was loaded from *)

\* Res::loadFromFile(filepath), and the overloads with one and two more
\* arguments (the type or the other source files of a shader): the resource
\* loads when every file it is given opens
loadFromFile(filepath) == filepath \notin BadFiles
loadFromFileT(filepath, t) == loadFromFile(filepath) /\ t \notin BadFiles
loadFromFileTK(filepath, t, k) == loadFromFileT(filepath, t) /\ k \notin BadFiles

\* mutant: a load that fails drops the entry stored under the id
StoreResource_dropOnFailure(resourceMap, loaded, filepath, id) ==
    IF loaded THEN MapInsert(resourceMap, id, filepath)
    ELSE [x \in DOMAIN resourceMap \ {id} |-> resourceMap[x]]

\* mutant: the resource that was opened replaces the one stored under the id
StoreResource_replace(resourceMap, loaded, filepath, id) ==
    IF loaded
    THEN [x \in DOMAIN resourceMap \cup {id} |->
            IF x = id THEN filepath ELSE resourceMap[x]]
    ELSE resourceMap

\* if (res->loadFromFile(...)) resourceMap_.insert(std::make_pair(id, res))
StoreResource(resourceMap, loaded, filepath, id) ==
    IF loaded THEN MapInsert(resourceMap, id, filepath) ELSE resourceMap

\* the loaded resource res still owns when load returns, because insert found
\* the key present: it is destroyed with res
DiscardedResource(resourceMap, loaded, filepath, id) ==
    IF loaded /\ MapFind(resourceMap, id) THEN filepath ELSE NoFile

\* mutant: a load that opens its file replaces the buffer stored under the id
LoadResource_replace(resourceMap, filepath, id) ==
    StoreResource_replace(resourceMap, loadFromFile(filepath), filepath, id)

LoadResource(resourceMap, filepath, id) ==
    StoreResource(resourceMap, loadFromFile(filepath), filepath, id)

\* mutant: unload empties the map
UnloadResource_all(resourceMap, id) == EmptyMap

\* unload of a key that is present
UnloadResource(resourceMap, id) == MapErase(resourceMap, id)

\* get: the stored resource, or nullptr (NoFile) when the debug build misses
GetResource(resourceMap, id) ==
    IF MapFind(resourceMap, id) THEN resourceMap[id] ELSE NoFile

\* the handlers, on a holder the game owns itself
HolderFrame == UNCHANGED <<debug, listener, playerVars>>

HolderMiss(message) ==
    /\ UNCHANGED resourceMap_
    /\ IF debug
       THEN /\ CanLog
            /\ messages_' = DebugLogger_cacheMessage(messages_, message)
            /\ UNCHANGED crashed
       ELSE UndefinedBehaviour /\ UNCHANGED messages_

\* the body the three overloads of load share; overload names the template
\* arguments in the message ("", "<T>" or "<T,K>")
HolderLoad(loaded, overload, filepath, id) ==
    /\ ~crashed
    /\ Called("ResourceHolder::load")
    /\ HolderFrame
    /\ resourceMap_' = StoreResource(resourceMap_, loaded, filepath, id)
    /\ stored' = IF loaded THEN stored \cup {id} ELSE stored
    /\ discarded' = DiscardedResource(resourceMap_, loaded, filepath, id)
    /\ IF loaded THEN UNCHANGED messages_
       ELSE /\ CanLog
            /\ messages_' = LogIfDebug(messages_,
                  "ae::ResourceHolder::load" \o overload \o " - Failed to load \""
                  \o filepath \o "\"")
    /\ UNCHANGED crashed

ResourceHolder_load(filepath, id) ==
    HolderLoad(loadFromFile(filepath), "", filepath, id)

ResourceHolder_loadT(filepath, t, id) ==
    HolderLoad(loadFromFileT(filepath, t), "<T>", filepath, id)

ResourceHolder_loadTK(filepath, t, k, id) ==
    HolderLoad(loadFromFileTK(filepath, t, k), "<T,K>", filepath, id)

ResourceHolder_unload(id) ==
    /\ ~crashed
    /\ Called("ResourceHolder::unload")
    /\ HolderFrame
    /\ stored' = stored \ {id}
    /\ IF ~MapFind(resourceMap_, id)
       THEN HolderMiss("ae::ResourceHolder::unload - Unable to find resource")
       ELSE /\ resourceMap_' = UnloadResource(resourceMap_, id)
            /\ UNCHANGED <<crashed, messages_>>

\* a hit hands out the stored pointer; a miss hands out nullptr in the debug
\* build and whatever resourceMap_.find(id)->second holds past the end of the
\* map in the release build (a null or a dangling pointer), if it returns
ResourceHolder_get(id) ==
    /\ ~crashed
    /\ Called("ResourceHolder::get")
    /\ HolderFrame
    /\ IF ~MapFind(resourceMap_, id)
       THEN /\ HolderMiss("ae::ResourceHolder::get - Unable to find resource")
            /\ IF debug THEN returned' = GetResource(resourceMap_, id)
               ELSE returned' \in {NoFile} \cup GoodFiles
       ELSE /\ returned' = GetResource(resourceMap_, id)
            /\ UNCHANGED <<crashed, messages_, resourceMap_>>

\* the files the game loads into its holder, and the other source files a
\* shader is loaded with
HolderFiles == Files \cup {"b.ogg"}
ShaderFiles == {"a.frag", "missing.ogg"}

\* A game that owns one holder and calls it with any id
HolderNext ==
    \/ \E id \in ID, f \in HolderFiles : ResourceHolder_load(f, id)
    \/ \E id \in ID, f \in HolderFiles, t \in ShaderFiles :
            ResourceHolder_loadT(f, t, id)
    \/ \E id \in ID, f \in HolderFiles, t \in ShaderFiles, k \in ShaderFiles :
            ResourceHolder_loadTK(f, t, k, id)
    \/ \E id \in ID : ResourceHolder_unload(id)
    \/ \E id \in ID : ResourceHolder_get(id)
    \/ messages_ # <<>> /\ DebugLogger_getCachedMessages

HolderSpec == InitCommon /\ [][HolderNext]_vars

-----------------------------------------------------------------------------
(* sf::Sound as SoundPlayer uses it *)

\* SoundEffect(buffer, id): an sf::Sound bound to buffer, with SFML's defaults
SoundEffect(buffer, id) ==
    [id |-> id, buffer |-> buffer, status |-> "Stopped", volume |-> 100,
     position |-> <<0, 0, 0>>, attenuation |-> 1, pitch |-> 1,
     minDistance |-> 1, relative |-> FALSE]

\* sf::Sound::play(): a source without a buffer has nothing to play
Sound_play(e) ==
    IF e.buffer = NoFile THEN [e EXCEPT !.status = "Stopped"]
    ELSE [e EXCEPT !.status = "Playing"]
\* sf::Sound::pause(): only a playing source becomes paused
Sound_pause(e) == IF e.status = "Playing" THEN [e EXCEPT !.status = "Paused"] ELSE e
Sound_stop(e) == [e EXCEPT !.status = "Stopped"]

-----------------------------------------------------------------------------
(* SoundPlayer<T>: the new value of sounds_ after each handler *)

\* mutant: every effect that is not playing is removed
removeStoppedSounds_notPlaying(sounds) ==
    SelectSeq(sounds, LAMBDA e : e.status = "Playing")

\* std::list::remove_if keeps the elements that fail the test, in order
removeStoppedSounds(sounds) ==
    SelectSeq(sounds, LAMBDA e : ~(e.status = "Stopped"))

\* mutant: the global volume is left out of the effect's volume
NewEffect_unscaled(buffer, props, position, id) ==
    Sound_play(
        [SoundEffect(buffer, id) EXCEPT
            !.position = <<position[1], -position[2], 0>>,
            !.volume = props.volume_,
            !.attenuation = props.attenuation_,
            !.pitch = props.pitch_,
            !.minDistance = props.minDistance3d_,
            !.relative = props.relativeToListener_])

\* the effect play() emplaces at the back of the list and starts
NewEffect(buffer, props, position, id) ==
    Sound_play(
        [SoundEffect(buffer, id) EXCEPT
            !.position = <<position[1], -position[2], 0>>,
            !.volume = ScaleVolume(globalVolume_.sound, props.volume_),
            !.attenuation = props.attenuation_,
            !.pitch = props.pitch_,
            !.minDistance = props.minDistance3d_,
            !.relative = props.relativeToListener_])

\* mutant: pause(false) starts every effect, whatever its status
PauseSounds_resumeAll(sounds, flag) ==
    [i \in DOMAIN sounds |->
        IF flag THEN Sound_pause(sounds[i]) ELSE Sound_play(sounds[i])]

PauseSounds(sounds, flag) ==
    [i \in DOMAIN sounds |->
        IF flag THEN Sound_pause(sounds[i])
        ELSE IF sounds[i].status = "Paused" THEN Sound_play(sounds[i]) ELSE sounds[i]]

\* mutant: the effects are not stopped before the stopped ones are removed
StopSounds_withoutStop(sounds) == removeStoppedSounds(sounds)

StopSounds(sounds) ==
    removeStoppedSounds([i \in DOMAIN sounds |-> Sound_stop(sounds[i])])

\* the first effect of the list whose id has no properties (0: there is none)
FirstMissing(sounds, properties) ==
    LET missing == {i \in DOMAIN sounds : ~MapFind(properties, sounds[i].id)}
    IN  IF missing = {} THEN Len(sounds) + 1
        ELSE CHOOSE i \in missing : \A j \in missing : i <= j

\* the loop of setGlobalVolume, which ends at the first effect without properties
RescaleSounds(sounds, properties, GLOBAL_VOLUME) ==
    [i \in DOMAIN sounds |->
        IF i < FirstMissing(sounds, properties)
        THEN [sounds[i] EXCEPT !.volume =
                ScaleVolume(GLOBAL_VOLUME, properties[sounds[i].id].volume_)]
        ELSE sounds[i]]

\* mutant: only the stopped effects of id are removed
UnloadSounds_stoppedOnly(sounds, id) ==
    SelectSeq(sounds, LAMBDA e : ~(e.id = id /\ e.status = "Stopped"))

UnloadSounds(sounds, id) ==
    SelectSeq(sounds, LAMBDA e : ~(e.id = id))

-----------------------------------------------------------------------------
(* SoundPlayer<T>: the handlers *)

SoundFrame == UNCHANGED <<debug, listener, tracks_, resourceMap_>>

SoundPlayer_play(position, id) ==
    LET pruned == removeStoppedSounds(sounds_)
        buffer == GetResource(soundBuffers_, id)
    IN  /\ ~crashed
        /\ Called("SoundPlayer::play")
        /\ SoundFrame
        /\ UNCHANGED <<globalVolume_, soundBuffers_, soundProperties_>>
        /\ IF ~MapFind(soundProperties_, id)
           THEN \* lookup-miss, after the stopped effects were removed
                /\ sounds_' = pruned
                /\ IF debug
                   THEN /\ CanLog
                        /\ messages_' = DebugLogger_cacheMessage(messages_,
                              "ae::SoundPlayer<T>::play - Unable to find sound effect")
                        /\ UNCHANGED crashed
                   ELSE UndefinedBehaviour /\ UNCHANGED messages_
           ELSE IF ~MapFind(soundBuffers_, id)
           THEN \* *soundBuffers_.get(id) without a buffer: a null reference
                /\ CanLog
                /\ messages_' = LogIfDebug(messages_,
                      "ae::ResourceHolder::get - Unable to find resource")
                /\ UndefinedBehaviour
                /\ Len(pruned) < MaxSounds
                /\ sounds_' = IF crashed' THEN pruned
                              ELSE Append(pruned, NewEffect(NoFile,
                                       soundProperties_[id], position, id))
           ELSE /\ Len(pruned) < MaxSounds
                /\ sounds_' = Append(pruned, NewEffect(buffer,
                                       soundProperties_[id], position, id))
                /\ UNCHANGED <<crashed, messages_>>

SoundPlayer_playAtListener(id) ==
    SoundPlayer_play(AudioPlayer_getListenerPosition, id)

SoundPlayer_pause(flag) ==
    /\ ~crashed
    /\ Called("SoundPlayer::pause")
    /\ SoundFrame
    /\ sounds_' = PauseSounds(sounds_, flag)
    /\ UNCHANGED <<crashed, messages_, globalVolume_, soundBuffers_, soundProperties_>>

SoundPlayer_stop ==
    /\ ~crashed
    /\ Called("SoundPlayer::stop")
    /\ SoundFrame
    /\ sounds_' = StopSounds(sounds_)
    /\ UNCHANGED <<crashed, messages_, globalVolume_, soundBuffers_, soundProperties_>>

SoundPlayer_setGlobalVolume(globalVolume) ==
    LET GLOBAL_VOLUME == AudioPlayer_setGlobalVolume(globalVolume)
        complete == FirstMissing(sounds_, soundProperties_) > Len(sounds_)
    IN  /\ ~crashed
        /\ Called("SoundPlayer::setGlobalVolume")
        /\ SoundFrame
        /\ globalVolume_' = [globalVolume_ EXCEPT !.sound = GLOBAL_VOLUME]
        /\ sounds_' = RescaleSounds(sounds_, soundProperties_, GLOBAL_VOLUME)
        /\ UNCHANGED <<soundBuffers_, soundProperties_>>
        /\ IF complete THEN UNCHANGED <<crashed, messages_>>
           ELSE IF debug
           THEN /\ CanLog
                /\ messages_' = DebugLogger_cacheMessage(messages_,
                      "ae::SoundPlayer<T>::setGlobalVolume - Unable to find a sound effect")
                /\ UNCHANGED crashed
           ELSE UndefinedBehaviour /\ UNCHANGED messages_

SoundPlayer_load(filepath, properties, id) ==
    /\ ~crashed
    /\ Called("SoundPlayer::load")
    /\ SoundFrame
    /\ soundBuffers_' = LoadResource(soundBuffers_, filepath, id)
    /\ IF loadFromFile(filepath) THEN UNCHANGED messages_
       ELSE /\ CanLog
            /\ messages_' = LogIfDebug(messages_,
                  "ae::ResourceHolder::load - Failed to load \"" \o filepath \o "\"")
    /\ soundProperties_' = MapInsert(soundProperties_, id, properties)
    /\ UNCHANGED <<crashed, globalVolume_, sounds_>>

\* load(filepath, id): the properties are AudioProperties()
SoundPlayer_loadDefault(filepath, id) ==
    SoundPlayer_load(filepath, DefaultAudioProperties(listener[3]), id)

SoundPlayer_unload(id) ==
    /\ ~crashed
    /\ Called("SoundPlayer::unload")
    /\ SoundFrame
    /\ UNCHANGED globalVolume_
    /\ IF ~MapFind(soundProperties_, id)
       THEN /\ UNCHANGED soundVars
            /\ IF debug
               THEN /\ CanLog
                    /\ messages_' = DebugLogger_cacheMessage(messages_,
                          "ae::SoundPlayer<T>::unload - The ID provided isn't associated with any sound effect")
                    /\ UNCHANGED crashed
               ELSE UndefinedBehaviour /\ UNCHANGED messages_
       ELSE /\ soundProperties_' = MapErase(soundProperties_, id)
            /\ sounds_' = UnloadSounds(sounds_, id)
            /\ IF MapFind(soundBuffers_, id)
               THEN /\ soundBuffers_' = UnloadResource(soundBuffers_, id)
                    /\ UNCHANGED <<crashed, messages_>>
               ELSE \* soundBuffers_.unload(id) of a buffer that never loaded
                    /\ UNCHANGED soundBuffers_
                    /\ IF debug
                       THEN /\ CanLog
                            /\ messages_' = DebugLogger_cacheMessage(messages_,
                                  "ae::ResourceHolder::unload - Unable to find resource")
                            /\ UNCHANGED crashed
                       ELSE UndefinedBehaviour /\ UNCHANGED messages_

\* the audio engine: a playing effect (sf::Sound never loops here) reaches its end
SoundFinished(i) ==
    /\ ~crashed
    /\ i \in DOMAIN sounds_
    /\ sounds_[i].status = "Playing"
    /\ sounds_' = [sounds_ EXCEPT ![i].status = "Stopped"]
    /\ Called("sound finished")
    /\ SoundFrame
    /\ UNCHANGED <<crashed, messages_, globalVolume_, soundBuffers_, soundProperties_>>

-----------------------------------------------------------------------------
(* A game that owns one SoundPlayer *)

SoundInit == InitCommon

\* The calls of a game that plays and unloads only ids it has passed to load,
\* and plays every effect at the same source position.
SoundNext ==
    \/ \E id \in DOMAIN soundProperties_, pos \in SourcePositions :
            SoundPlayer_play(pos, id)
    \/ \E flag \in BOOLEAN : SoundPlayer_pause(flag)
    \/ SoundPlayer_stop
    \/ \E g \in VolumeInputs : SoundPlayer_setGlobalVolume(g)
    \/ \E id \in ID, f \in Files, p \in PropertiesInputs : SoundPlayer_load(f, p, id)
    \/ \E id \in ID, f \in Files : SoundPlayer_loadDefault(f, id)
    \/ \E id \in DOMAIN soundProperties_ : SoundPlayer_unload(id)
    \/ \E i \in 1..MaxSounds : SoundFinished(i)
    \/ messages_ # <<>> /\ DebugLogger_getCachedMessages

SoundSpec == SoundInit /\ [][SoundNext]_vars

-----------------------------------------------------------------------------
(* A game that moves the listener and plays effects at given positions and  *)
(* at the listener.  Every file opens; the first value of the enum is       *)
(* loaded with explicit properties, the others with the default ones.       *)

LoadedIDs == {1}
\* setGlobalVolume arguments of this game
PlayVolumeInputs == {50, 150}

SoundPlayNext ==
    \/ \E id \in LoadedIDs, f \in GoodFiles, p \in PropertiesInputs :
            SoundPlayer_load(f, p, id)
    \/ \E id \in ID \ LoadedIDs, f \in GoodFiles : SoundPlayer_loadDefault(f, id)
    \/ \E id \in DOMAIN soundProperties_, pos \in SourcePositions :
            SoundPlayer_play(pos, id)
    \/ \E id \in DOMAIN soundProperties_ : SoundPlayer_playAtListener(id)
    \/ \E g \in PlayVolumeInputs : SoundPlayer_setGlobalVolume(g)
    \/ \E i \in 1..MaxSounds : SoundFinished(i)
    \/ \E pos \in ListenerPositions : AudioPlayer_setListenerPosition(pos)

SoundPlaySpec == SoundInit /\ [][SoundPlayNext]_vars

-----------------------------------------------------------------------------
(* A debug build whose game also calls with ids that have no entry.  Only    *)
(* the enum's first value is ever loaded, so every call with another value  *)
(* is a lookup-miss.                                                        *)

MissInit == InitCommon /\ debug

MissNext ==
    \/ \E id \in LoadedIDs, f \in GoodFiles : MusicPlayer_loadDefault(f, id)
    \/ \E id \in ID : MusicPlayer_playAtListener(id, FALSE)
    \/ \E id \in ID : MusicPlayer_pause(id, TRUE)
    \/ \E id \in ID : MusicPlayer_stop(id)
    \/ \E id \in ID, pos \in SourcePositions :
            MusicPlayer_setMusicSourcePosition(pos, id)
    \/ \E id \in ID : MusicPlayer_getMusicStatus(id)
    \/ \E id \in ID : MusicPlayer_unload(id)
    \/ \E id \in LoadedIDs, f \in GoodFiles : SoundPlayer_loadDefault(f, id)
    \/ \E id \in ID : SoundPlayer_playAtListener(id)
    \/ \E id \in ID : SoundPlayer_unload(id)
    \/ \E i \in 1..MaxSounds : SoundFinished(i)
    \/ \E id \in LoadedIDs, f \in GoodFiles : ResourceHolder_load(f, id)
    \/ \E id \in ID : ResourceHolder_get(id)
    \/ \E id \in ID : ResourceHolder_unload(id)
    \/ messages_ # <<>> /\ DebugLogger_getCachedMessages

MissSpec == MissInit /\ [][MissNext]_vars

-----------------------------------------------------------------------------
(* A game that owns a MusicPlayer and a SoundPlayer and sets their global   *)
(* volumes while a track and effects are loaded and playing                 *)

VolumeNext ==
    \/ \E id \in LoadedIDs, f \in GoodFiles : MusicPlayer_loadDefault(f, id)
    \/ \E id \in DOMAIN tracks_ : MusicPlayer_playAtListener(id, TRUE)
    \/ \E g \in VolumeInputs : MusicPlayer_setGlobalVolume(g)
    \/ \E id \in LoadedIDs, f \in GoodFiles, p \in PropertiesInputs :
            SoundPlayer_load(f, p, id)
    \/ \E id \in DOMAIN soundProperties_ : SoundPlayer_playAtListener(id)
    \/ \E g \in VolumeInputs : SoundPlayer_setGlobalVolume(g)
    \/ \E i \in 1..MaxSounds : SoundFinished(i)

VolumeSpec == InitCommon /\ [][VolumeNext]_vars

-----------------------------------------------------------------------------
(* A game that owns an AudioProperties object from before it constructs its *)
(* player: it sets the object's minimum distance, constructs the player,    *)
(* loads effects with the object and moves the listener.                    *)

\* arguments of setMinDistance2D: below and above the least distance 1
MinDistanceInputs == {0, 250}

\* the frame of a call on the game's own AudioProperties object
PropertiesCall(op) ==
    /\ ~crashed
    /\ lastOp' = op
    /\ statusBefore' = EmptyMap
    /\ Recorded(op)
    /\ UNCHANGED <<debug, crashed, messages_, listener, playerVars,
                   resourceMap_, constructed>>

\* AudioProperties properties; the constructor with its default arguments
Game_AudioProperties ==
    /\ PropertiesCall("AudioProperties::AudioProperties")
    /\ gameProperties' = DefaultAudioProperties(listener[3])

Game_setMinDistance2D(minDistance2d) ==
    /\ PropertiesCall("AudioProperties::setMinDistance2D")
    /\ gameProperties' =
            AudioProperties_setMinDistance2D(gameProperties, minDistance2d, listener[3])

\* AudioPlayer<T>::AudioPlayer(), run by the constructor of the game's player
AudioPlayer_AudioPlayer ==
    /\ ~crashed
    /\ ~constructed
    /\ constructed' = TRUE
    /\ globalVolume_' = [music |-> 100, sound |-> 100]
    /\ listener' = ListenerAtConstruction
    /\ lastOp' = "construct"
    /\ statusBefore' = EmptyMap
    /\ Recorded("construct")
    /\ UNCHANGED <<debug, crashed, messages_, tracks_, soundVars, resourceMap_,
                   gameProperties>>

PropertiesInit ==
    /\ debug \in BOOLEAN
    /\ crashed = FALSE
    /\ messages_ = <<>>
    /\ drained = <<>>
    /\ math = NoCall
    /\ discarded = NoFile
    /\ listener = ListenerAtStart
    /\ globalVolume_ = [music |-> 100, sound |-> 100]
    /\ tracks_ = EmptyMap
    /\ soundBuffers_ = EmptyMap
    /\ soundProperties_ = EmptyMap
    /\ sounds_ = <<>>
    /\ resourceMap_ = EmptyMap
    /\ lastOp = "AudioProperties::AudioProperties"
    /\ statusBefore = EmptyMap
    /\ stored = {}
    /\ returned = NoReturn
    /\ gameProperties = DefaultAudioProperties(listener[3])
    /\ constructed = FALSE

PropertiesNext ==
    \/ Game_AudioProperties
    \/ \E d \in MinDistanceInputs : Game_setMinDistance2D(d)
    \/ AudioPlayer_AudioPlayer
    \/ constructed /\ \E id \in ID, f \in GoodFiles :
            SoundPlayer_load(f, gameProperties, id)
    \/ constructed /\ \E id \in DOMAIN soundProperties_ :
            SoundPlayer_playAtListener(id)
    \/ constructed /\ \E id \in DOMAIN soundProperties_ : SoundPlayer_unload(id)
    \/ constructed /\ \E pos \in ListenerPositions :
            AudioPlayer_setListenerPosition(pos)

PropertiesSpec == PropertiesInit /\ [][PropertiesNext]_vars

-----------------------------------------------------------------------------
(* A game that constructs an AudioProperties object, calls its setters with *)
(* values inside and outside their ranges, and constructs its player at     *)
(* some point in between.                                                   *)

AttenuationInputs == {-5, 35}
PitchInputs == {-1, 2}

Game_AudioPropertiesWith(volume, attenuation, pitch, minDistance2d, relativeToListener) ==
    /\ PropertiesCall("AudioProperties::AudioProperties")
    /\ gameProperties' = AudioProperties(volume, attenuation, pitch, minDistance2d,
                                         relativeToListener, listener[3])

Game_setVolume(volume) ==
    /\ PropertiesCall("AudioProperties::setVolume")
    /\ gameProperties' = AudioProperties_setVolume(gameProperties, volume)

Game_setAttenuation(attenuation) ==
    /\ PropertiesCall("AudioProperties::setAttenuation")
    /\ gameProperties' = AudioProperties_setAttenuation(gameProperties, attenuation)

Game_setPitch(pitch) ==
    /\ PropertiesCall("AudioProperties::setPitch")
    /\ gameProperties' = AudioProperties_setPitch(gameProperties, pitch)

Game_setRelativeToListener(flag) ==
    /\ PropertiesCall("AudioProperties::setRelativeToListener")
    /\ gameProperties' = AudioProperties_setRelativeToListener(gameProperties, flag)

SettersNext ==
    \/ Game_AudioProperties
    \/ \E v \in VolumeInputs, a \in AttenuationInputs, p \in PitchInputs,
          d \in MinDistanceInputs, r \in BOOLEAN :
            Game_AudioPropertiesWith(v, a, p, d, r)
    \/ \E v \in VolumeInputs : Game_setVolume(v)
    \/ \E a \in AttenuationInputs : Game_setAttenuation(a)
    \/ \E d \in MinDistanceInputs : Game_setMinDistance2D(d)
    \/ \E p \in PitchInputs : Game_setPitch(p)
    \/ \E r \in BOOLEAN : Game_setRelativeToListener(r)
    \/ AudioPlayer_AudioPlayer

SettersSpec == PropertiesInit /\ [][SettersNext]_vars

-----------------------------------------------------------------------------
(* A game that caches messages of its own in the debug log, next to the     *)
(* ones the holder and the music player cache, and drains the log at any    *)
(* time, also when it is empty                                              *)

MaxCached == 2
LogInputs == {"first", "second"}

\* DebugLogger::cacheMessage called by the game itself
DebugLogger_cache(message) ==
    /\ ~crashed
    /\ Len(messages_) < MaxCached
    /\ messages_' = DebugLogger_cacheMessage(messages_, message)
    /\ Called("cacheMessage")
    /\ UNCHANGED <<debug, crashed, listener, playerVars, resourceMap_>>

LoggerNext ==
    \/ \E m \in LogInputs : DebugLogger_cache(m)
    \/ DebugLogger_getCachedMessages
    \/ \E id \in ID, f \in Files : ResourceHolder_load(f, id)
    \/ \E id \in LoadedIDs, f \in Files : MusicPlayer_loadDefault(f, id)

LoggerSpec == InitCommon /\ [][LoggerNext]_vars

-----------------------------------------------------------------------------
(* A game that loads its sound effects more than once, from any file and    *)
(* with any properties, while instances of them are playing.  It plays      *)
(* only the ids that have a buffer.                                         *)

ReloadNext ==
    \/ \E id \in ID, f \in HolderFiles, p \in PropertiesInputs :
            SoundPlayer_load(f, p, id)
    \/ \E id \in ID, f \in HolderFiles : SoundPlayer_loadDefault(f, id)
    \/ \E id \in DOMAIN soundBuffers_ : SoundPlayer_playAtListener(id)
    \/ \E g \in PlayVolumeInputs : SoundPlayer_setGlobalVolume(g)
    \/ \E i \in 1..MaxSounds : SoundFinished(i)

ReloadSpec == SoundInit /\ [][ReloadNext]_vars

-----------------------------------------------------------------------------
(* A game that replaces one of its two players by a newly constructed one   *)
(* while the other is in use and the listener has been moved                *)

Players == {"music", "sound"}

\* mutant: the constructor leaves the listener where it is
Game_construct_keepsListener(player) ==
    /\ ~crashed
    /\ globalVolume_' = [globalVolume_ EXCEPT ![player] = 100]
    /\ UNCHANGED listener
    /\ IF player = "music"
       THEN tracks_' = EmptyMap /\ UNCHANGED soundVars
       ELSE /\ soundBuffers_' = EmptyMap
            /\ soundProperties_' = EmptyMap
            /\ sounds_' = <<>>
            /\ UNCHANGED tracks_
    /\ lastOp' = "construct"
    /\ statusBefore' = EmptyMap
    /\ Recorded("construct")
    /\ UNCHANGED <<debug, crashed, messages_, resourceMap_, gameProperties,
                   constructed>>

\* MusicPlayer<T>() or SoundPlayer<T>(): AudioPlayer<T>::AudioPlayer() and
\* the default-constructed collections of the new player
Game_construct(player) ==
    /\ ~crashed
    /\ globalVolume_' = [globalVolume_ EXCEPT ![player] = 100]
    /\ listener' = ListenerAtConstruction
    /\ IF player = "music"
       THEN tracks_' = EmptyMap /\ UNCHANGED soundVars
       ELSE /\ soundBuffers_' = EmptyMap
            /\ soundProperties_' = EmptyMap
            /\ sounds_' = <<>>
            /\ UNCHANGED tracks_
    /\ lastOp' = "construct"
    /\ statusBefore' = EmptyMap
    /\ Recorded("construct")
    /\ UNCHANGED <<debug, crashed, messages_, resourceMap_, gameProperties,
                   constructed>>

ConstructNext ==
    \/ \E player \in Players : Game_construct(player)
    \/ \E pos \in ListenerPositions : AudioPlayer_setListenerPosition(pos)
    \/ \E g \in VolumeInputs : MusicPlayer_setGlobalVolume(g)
    \/ \E g \in VolumeInputs : SoundPlayer_setGlobalVolume(g)
    \/ \E id \in LoadedIDs, f \in GoodFiles : MusicPlayer_loadDefault(f, id)
    \/ \E id \in DOMAIN tracks_ : MusicPlayer_playAtListener(id, TRUE)

ConstructSpec == InitCommon /\ [][ConstructNext]_vars

-----------------------------------------------------------------------------
(* Math::pascalTriangle, one loop iteration at a time.  int is 32 bits wide; *)
(* the vector row is the sequence math.row, row[k] being math.row[k + 1]     *)

MaxRow == 30
INT_MAX == 2147483647
INT_MIN == -INT_MAX - 1

\* a + b of two ints, wrapped to 32 bits
AddWrap(a, b) ==
    IF a > 0 /\ b > INT_MAX - a THEN (a - INT_MAX - 1) + (b - INT_MAX - 1)
    ELSE IF a < 0 /\ b < INT_MIN - a THEN (a + INT_MAX + 1) + (b + INT_MAX + 1)
    ELSE a + b

\* a * b of an int and a small positive int, wrapped to 32 bits
RECURSIVE MulWrap(_, _)
MulWrap(a, b) == IF b = 0 THEN 0 ELSE AddWrap(MulWrap(a, b - 1), a)

\* mutant: no product leaves the range (an int wider than 32 bits)
MulOverflows_never(a, b) == FALSE

\* a * b is outside the range of int (b > 0)
MulOverflows(a, b) == a > INT_MAX \div b \/ a < -(INT_MAX \div b) - 1

\* a / b of C++: the quotient truncated towards zero (b > 0)
IntDiv(a, b) ==
    IF a < 0 /\ a % b # 0 THEN (a \div b) + 1 ELSE a \div b

\* mutant: the division is made before the multiplication
pascalTerm_divideFirst(previous, n, i) == MulWrap(IntDiv(previous, i), n - i + 1)

\* row[i - 1] * (n - i + 1) / i
pascalTerm(previous, n, i) == IntDiv(MulWrap(previous, n - i + 1), i)

\* std::vector<int> row(n + 1); row[0] = 1;
Math_pascalTriangle(n) ==
    /\ ~crashed
    /\ math.pc \in {"idle", "returned"}
    /\ math' = [n |-> n, i |-> 1, pc |-> "first", overflowed |-> FALSE,
                row |-> [k \in 1..(n + 1) |-> IF k = 1 THEN 1 ELSE 0]]
    /\ Called("Math::pascalTriangle")
    /\ UNCHANGED <<debug, crashed, messages_, listener, playerVars, resourceMap_>>

\* for (int i = 1; i < n / 2 + 1; i++) row[i] = row[i - 1] * (n - i + 1) / i;
\* a product outside the range of int is undefined behaviour
Math_firstLoop ==
    /\ ~crashed
    /\ math.pc = "first"
    /\ IF math.i < math.n \div 2 + 1
       THEN /\ math' = [math EXCEPT
                    !.row[math.i + 1] = pascalTerm(math.row[math.i], math.n, math.i),
                    !.i = math.i + 1,
                    !.overflowed = @ \/ MulOverflows(math.row[math.i],
                                                     math.n - math.i + 1)]
            /\ IF MulOverflows(math.row[math.i], math.n - math.i + 1)
               THEN UndefinedBehaviour
               ELSE UNCHANGED crashed
       ELSE /\ math' = [math EXCEPT !.pc = "second", !.i = math.n \div 2 + 1]
            /\ UNCHANGED crashed
    /\ Called("Math::pascalTriangle")
    /\ UNCHANGED <<debug, messages_, listener, playerVars, resourceMap_>>

\* for (int i = n / 2 + 1; i <= n; i++) row[i] = row[n - i]; return row;
Math_secondLoop ==
    /\ ~crashed
    /\ math.pc = "second"
    /\ math' = IF math.i <= math.n
               THEN [math EXCEPT !.row[math.i + 1] = math.row[math.n - math.i + 1],
                                 !.i = math.i + 1]
               ELSE [math EXCEPT !.pc = "returned"]
    /\ Called("Math::pascalTriangle")
    /\ UNCHANGED <<debug, crashed, messages_, listener, playerVars, resourceMap_>>

PascalNext ==
    \/ \E n \in 0..MaxRow : Math_pascalTriangle(n)
    \/ Math_firstLoop
    \/ Math_secondLoop

PascalSpec == InitCommon /\ [][PascalNext]_vars

-----------------------------------------------------------------------------
(* Properties *)

Clamp0to100(v) == IF v < 0 THEN 0 ELSE IF v > 100 THEN 100 ELSE v
NotStopped(e) == e.status # "Stopped"
\* exactly one message was appended to the debug log
OneMessageCached ==
    /\ Len(messages_') = Len(messages_) + 1
    /\ SubSeq(messages_', 1, Len(messages_)) = messages_
AlreadyLoadedMessage ==
    "ae::MusicPlayer<T>::load - Attempt to load in music track that's already loaded in"

\* C1: a MusicPlayer::load (either overload) of an id that is not loaded, whose
\* file cannot be opened, leaves the set of loaded track ids as it was.
C1_FailedLoadKeepsLoadedIds ==
    [][\A id \in ID, f \in BadFiles :
        (/\ ~MapFind(tracks_, id)
         /\ \/ MusicPlayer_loadDefault(f, id)
            \/ \E p \in PropertiesInputs : MusicPlayer_load(f, p, id))
        => DOMAIN tracks_' = DOMAIN tracks_]_vars

\* C2: after load(path, properties, id) of an id that is not loaded, with a file
\* that opens, the entry under id is the track opened from path, with the
\* attenuation, pitch, minDistance3D and relative flag of properties and the
\* nominal volume properties.getVolume().
C2_LoadStoresOpenedTrack ==
    [][\A id \in ID, f \in GoodFiles, p \in PropertiesInputs :
        (~MapFind(tracks_, id) /\ MusicPlayer_load(f, p, id))
        => /\ MapFind(tracks_', id)
           /\ tracks_'[id].file = f
           /\ tracks_'[id].attenuation = p.attenuation_
           /\ tracks_'[id].pitch = p.pitch_
           /\ tracks_'[id].minDistance = p.minDistance3d_
           /\ tracks_'[id].relative = p.relativeToListener_
           /\ tracks_'[id].VOLUME = p.volume_]_vars

\* C3: in every reachable state of a SoundPlayer the ids that have a
\* properties record are the ids that have a buffer in the buffer cache.
C3_PropertiesIffBuffer == DOMAIN soundProperties_ = DOMAIN soundBuffers_

\* the id-keyed MusicPlayer handlers, called with id
MusicCallWith(id) ==
    \/ \E loop \in BOOLEAN : MusicPlayer_playAtListener(id, loop)
    \/ \E loop \in BOOLEAN, pos \in SourcePositions : MusicPlayer_play(pos, id, loop)
    \/ \E flag \in BOOLEAN : MusicPlayer_pause(id, flag)
    \/ MusicPlayer_stop(id)
    \/ \E pos \in SourcePositions : MusicPlayer_setMusicSourcePosition(pos, id)
    \/ MusicPlayer_getMusicStatus(id)
    \/ MusicPlayer_unload(id)
SoundPlayWith(id) ==
    \/ SoundPlayer_playAtListener(id)
    \/ \E pos \in SourcePositions : SoundPlayer_play(pos, id)
NothingElseChanged == UNCHANGED <<playerVars, resourceMap_, listener, crashed>>

\* C4 as claimed: in a debug build every id-keyed call with an id that has no
\* entry appends a message to the debug log and leaves the state of the
\* player or holder exactly as it was.
C4_MissChangesNothing ==
    [][\A id \in ID :
        /\ (debug /\ ~MapFind(tracks_, id) /\ MusicCallWith(id))
            => (OneMessageCached /\ NothingElseChanged)
        /\ (debug /\ ~MapFind(soundProperties_, id)
                  /\ (SoundPlayWith(id) \/ SoundPlayer_unload(id)))
            => (OneMessageCached /\ NothingElseChanged)
        /\ (debug /\ ~MapFind(resourceMap_, id)
                  /\ (ResourceHolder_get(id) \/ ResourceHolder_unload(id)))
            => (OneMessageCached /\ NothingElseChanged)]_vars

\* C4 amended: in a debug build every id-keyed call with an id that has no
\* entry appends a message to the debug log and changes nothing else, except
\* SoundPlayer::play, which has removed the Stopped instances from the active
\* list before it looks the id up (the other instances stay, in their order).
C4_MissOnlyLogsAndPrunes ==
    [][\A id \in ID :
        /\ (debug /\ ~MapFind(tracks_, id) /\ MusicCallWith(id))
            => (OneMessageCached /\ NothingElseChanged)
        /\ (debug /\ ~MapFind(soundProperties_, id) /\ SoundPlayer_unload(id))
            => (OneMessageCached /\ NothingElseChanged)
        /\ (debug /\ ~MapFind(resourceMap_, id)
                  /\ (ResourceHolder_get(id) \/ ResourceHolder_unload(id)))
            => (OneMessageCached /\ NothingElseChanged)
        /\ (debug /\ ~MapFind(soundProperties_, id) /\ SoundPlayWith(id))
            => /\ OneMessageCached
               /\ sounds_' = SelectSeq(sounds_, NotStopped)
               /\ UNCHANGED <<musicVars, soundBuffers_, soundProperties_,
                              resourceMap_, listener, crashed>>]_vars

\* a play with an id that has no entry was logged, and an active instance is
\* still in the list
C4_Witness ==
    /\ debug
    /\ lastOp = "SoundPlayer::play"
    /\ messages_ = <<"ae::SoundPlayer<T>::play - Unable to find sound effect">>
    /\ sounds_ # <<>>
    /\ \E id \in DOMAIN tracks_ : tracks_[id].status = "Playing"

\* C5: MusicPlayer::load (either overload) with an id that is already loaded
\* changes no track and no volume, whatever path and properties it passes;
\* the debug build appends exactly one message, the release build none.
C5_LoadOfLoadedIdIsNoOp ==
    [][\A id \in ID, f \in Files :
        (/\ lastOp' = "MusicPlayer::load"
         /\ MapFind(tracks_, id)
         /\ \/ MusicPlayer_loadDefault(f, id)
            \/ \E p \in PropertiesInputs : MusicPlayer_load(f, p, id))
        => /\ tracks_' = tracks_
           /\ globalVolume_' = globalVolume_
           /\ messages_' = IF debug THEN Append(messages_, AlreadyLoadedMessage)
                           ELSE messages_]_vars

C5_Witness ==
    /\ debug
    /\ lastOp = "MusicPlayer::load"
    /\ messages_ = <<AlreadyLoadedMessage>>
    /\ \E id \in DOMAIN tracks_ : tracks_[id].status = "Playing"

\* pause(true) was the last call, or only pause(false) calls have followed it
AfterPauseTrue == lastOp = "MusicPlayer::pause(true)"
AfterPauseTrueFalse ==
    lastOp = "MusicPlayer::pause(false)" /\ DOMAIN statusBefore = DOMAIN tracks_

\* C6 as claimed: pause(true) pauses only the playing tracks, and pause(true)
\* followed by pause(false) restores every track's status: a track that was
\* already Paused before pause(true) is still Paused.
C6_PauseThenResumeRestores ==
    /\ AfterPauseTrue =>
        \A id \in DOMAIN tracks_ :
            tracks_[id].status = IF statusBefore[id] = "Playing" THEN "Paused"
                                 ELSE statusBefore[id]
    /\ AfterPauseTrueFalse =>
        \A id \in DOMAIN tracks_ : tracks_[id].status = statusBefore[id]

\* C6 amended: pause(true) pauses only the playing tracks (a track already
\* Paused stays Paused), and a subsequent pause(false) resumes every track
\* that is Paused, the one that was Paused before pause(true) included: it
\* ends Playing, and only the tracks that were Playing or Stopped get their
\* status back.
C6_PauseThenResumeAllPaused ==
    /\ AfterPauseTrue =>
        \A id \in DOMAIN tracks_ :
            tracks_[id].status = IF statusBefore[id] = "Playing" THEN "Paused"
                                 ELSE statusBefore[id]
    /\ AfterPauseTrueFalse =>
        \A id \in DOMAIN tracks_ :
            tracks_[id].status = IF statusBefore[id] = "Paused" THEN "Playing"
                                 ELSE statusBefore[id]

C6_Witness ==
    /\ AfterPauseTrueFalse
    /\ \E a, b \in DOMAIN tracks_ :
        /\ statusBefore[a] = "Playing" /\ tracks_[a].status = "Playing"
        /\ statusBefore[b] = "Paused" /\ tracks_[b].status = "Playing"

\* what pause does to one track
PauseRule(t, flag) ==
    IF flag /\ t.status = "Playing" THEN [t EXCEPT !.status = "Paused"]
    ELSE IF ~flag /\ t.status = "Paused" THEN [t EXCEPT !.status = "Playing"]
    ELSE t

\* C7: pause(true) turns exactly the Playing tracks Paused and pause(false)
\* exactly the Paused tracks Playing; the other tracks, the set of loaded
\* tracks, the volumes and the loop flags are unchanged; pause(id, flag) on a
\* loaded id does the same to track id and changes no other track.
C7_PauseFrame ==
    [][/\ \A flag \in BOOLEAN :
            MusicPlayer_pauseAll(flag)
            => /\ DOMAIN tracks_' = DOMAIN tracks_
               /\ \A k \in DOMAIN tracks_ : tracks_'[k] = PauseRule(tracks_[k], flag)
               /\ globalVolume_' = globalVolume_
       /\ \A id \in ID, flag \in BOOLEAN :
            (MapFind(tracks_, id) /\ MusicPlayer_pause(id, flag))
            => /\ DOMAIN tracks_' = DOMAIN tracks_
               /\ tracks_'[id] = PauseRule(tracks_[id], flag)
               /\ \A k \in DOMAIN tracks_ \ {id} : tracks_'[k] = tracks_[k]
               /\ globalVolume_' = globalVolume_]_vars

C7_Witness ==
    /\ lastOp = "MusicPlayer::pause(id, flag)"
    /\ \E a, b \in DOMAIN tracks_ :
        /\ tracks_[a].status = "Paused"
        /\ tracks_[b].status = "Playing"

\* C8: immediately after MusicPlayer::setGlobalVolume(v) every loaded track,
\* whatever its status, has volume clamp(v, 0, 100) * nominal volume / 100;
\* a default-properties track loaded at global volume 100 has volume 100.
C8_SetGlobalVolumeRescalesAll ==
    [][/\ \A g \in VolumeInputs :
            MusicPlayer_setGlobalVolume(g)
            => /\ DOMAIN tracks_' = DOMAIN tracks_
               /\ \A k \in DOMAIN tracks_ :
                    /\ tracks_'[k].VOLUME = tracks_[k].VOLUME
                    /\ tracks_'[k].volume =
                            (Clamp0to100(g) * tracks_[k].VOLUME) \div 100
       /\ \A id \in ID, f \in GoodFiles :
            (/\ ~MapFind(tracks_, id)
             /\ globalVolume_.music = 100
             /\ MusicPlayer_loadDefault(f, id))
            => tracks_'[id].volume = 100]_vars

\* global volume 50: a never played default track at 50, a track of nominal
\* volume 40 at 20
C8_Witness ==
    /\ lastOp = "MusicPlayer::setGlobalVolume"
    /\ globalVolume_.music = 50
    /\ \E a, b \in DOMAIN tracks_ :
        /\ tracks_[a].VOLUME = 100 /\ tracks_[a].volume = 50
        /\ tracks_[a].status = "Stopped"
        /\ tracks_[b].VOLUME = 40 /\ tracks_[b].volume = 20

\* play(position, id) has appended one playing instance of id
Played(position, id) ==
    LET kept == SelectSeq(sounds_, NotStopped)
        props == soundProperties_[id]
        e == sounds_'[Len(sounds_')]
    IN  /\ Len(sounds_') = Len(kept) + 1
        /\ SubSeq(sounds_', 1, Len(kept)) = kept
        /\ e.id = id
        /\ e.buffer = soundBuffers_[id]
        /\ e.status = "Playing"
        /\ e.position = <<position[1], -position[2], 0>>
        /\ e.volume = (globalVolume_.sound * props.volume_) \div 100
        /\ e.attenuation = props.attenuation_
        /\ e.pitch = props.pitch_
        /\ e.minDistance = props.minDistance3d_
        /\ e.relative = props.relativeToListener_

\* C9: SoundPlayer::play(position, id) on a loaded id appends exactly one new
\* instance of id: Playing, at (position.x, -position.y, 0), with the
\* attenuation, pitch, minDistance3D and relative flag of id's properties and
\* volume globalVolume * properties.volume / 100; play(id) does the same with
\* position = getListenerPosition().
C9_PlayAppendsOneInstance ==
    [][\A id \in ID :
        (MapFind(soundProperties_, id) /\ MapFind(soundBuffers_, id))
        => /\ \A pos \in SourcePositions :
                SoundPlayer_play(pos, id) => Played(pos, id)
           /\ SoundPlayer_playAtListener(id)
                => Played(<<listener[1], -listener[2]>>, id)]_vars

\* properties volume 40 at global volume 50: the instance plays at 20, at the
\* listener after the listener has moved
C9_Witness ==
    /\ lastOp = "SoundPlayer::play"
    /\ globalVolume_.sound = 50
    /\ sounds_ # <<>>
    /\ LET e == sounds_[Len(sounds_)]
       IN  /\ e.status = "Playing"
           /\ e.volume = 20
           /\ soundProperties_[e.id].volume_ = 40
           /\ e.position = <<3, -4, 0>>
           /\ listener = <<3, -4, 300>>

\* every play call leaves, before the instance it may append, exactly the
\* instances that were not Stopped, in their order
PlayPrunesStopped ==
    \A id \in ID, pos \in SourcePositions :
        SoundPlayer_play(pos, id)
        => LET kept == SelectSeq(sounds_, NotStopped)
           IN  /\ Len(sounds_') >= Len(kept)
               /\ SubSeq(sounds_', 1, Len(kept)) = kept
\* the list keeps its instances, and a Stopped one stays Stopped
ListKept ==
    /\ Len(sounds_') = Len(sounds_)
    /\ \A i \in DOMAIN sounds_ :
        /\ sounds_'[i].id = sounds_[i].id
        /\ sounds_[i].status = "Stopped" => sounds_'[i].status = "Stopped"

\* the instances of id in the list that have played to their end
StoppedOf(list, id) ==
    SelectSeq(list, LAMBDA e : e.id = id /\ e.status = "Stopped"
                                        /\ e.buffer # NoFile)
\* no finished instance has left the list
FinishedStay ==
    \A id \in ID : Len(StoppedOf(sounds_', id)) >= Len(StoppedOf(sounds_, id))

OthersKept(before, after, id) ==
    /\ DOMAIN after = DOMAIN before \ {id}
    /\ \A k \in DOMAIN after : after[k] = before[k]

\* C11: SoundPlayer::unload(id) on a loaded id leaves no instance of id in the
\* active list, whatever the status of its instances was, leaves id without
\* properties and without a buffer, and leaves the instances, properties and
\* buffers of every other id as they were.
C11_UnloadRemovesIdOnly ==
    [][\A id \in ID :
        (/\ lastOp' = "SoundPlayer::unload"
         /\ MapFind(soundProperties_, id)
         /\ MapFind(soundBuffers_, id)
         /\ SoundPlayer_unload(id))
        => /\ \A i \in DOMAIN sounds_' : sounds_'[i].id # id
           /\ sounds_' = SelectSeq(sounds_, LAMBDA e : e.id # id)
           /\ OthersKept(soundProperties_, soundProperties_', id)
           /\ OthersKept(soundBuffers_, soundBuffers_', id)]_vars

\* after an unload one id is left, with its properties, its buffer and an
\* instance that is still playing
C11_Witness ==
    /\ lastOp = "SoundPlayer::unload"
    /\ Len(sounds_) = 1
    /\ sounds_[1].status = "Playing"
    /\ DOMAIN soundProperties_ = {sounds_[1].id}
    /\ DOMAIN soundBuffers_ = {sounds_[1].id}

\* C12: SoundPlayer::stop() leaves the active list empty, whatever it held,
\* and leaves the buffers and the properties as they were.
C12_StopEmptiesList ==
    [][SoundPlayer_stop
        => /\ sounds_' = <<>>
           /\ UNCHANGED <<soundBuffers_, soundProperties_, globalVolume_>>]_vars

\* stop() has emptied the list of a player that has two ids loaded
C12_Witness ==
    /\ lastOp = "SoundPlayer::stop"
    /\ sounds_ = <<>>
    /\ DOMAIN soundProperties_ = ID
    /\ DOMAIN soundBuffers_ = ID

\* C13: SoundPlayer::pause(true) turns every Playing instance Paused and
\* pause(false) exactly the Paused instances Playing; a Stopped instance stays
\* Stopped; the members of the list, their order and their volumes (and every
\* other attribute) are unchanged.
C13_PauseKeepsList ==
    [][\A flag \in BOOLEAN :
        SoundPlayer_pause(flag)
        => /\ Len(sounds_') = Len(sounds_)
           /\ \A i \in DOMAIN sounds_ : sounds_'[i] = PauseRule(sounds_[i], flag)
           /\ UNCHANGED <<soundBuffers_, soundProperties_, globalVolume_>>]_vars

\* a pause call has left a paused instance and a finished one in the list
C13_Witness ==
    /\ lastOp = "SoundPlayer::pause"
    /\ Len(sounds_) = 2
    /\ sounds_[1].status = "Paused"
    /\ sounds_[2].status = "Stopped"
    /\ sounds_[2].buffer # NoFile

\* C14: MusicPlayer::play(position, id, loop) on a loaded id sets track id's
\* position to (position.x, -position.y, 0), its loop flag to loop, its volume
\* to globalVolume * nominal volume / 100 and its status to Playing, and
\* leaves every other track as it was; play(id, loop) does the same with the
\* listener position.
PlayedTrack(position, id, loop) ==
    /\ DOMAIN tracks_' = DOMAIN tracks_
    /\ tracks_'[id].position = <<position[1], -position[2], 0>>
    /\ tracks_'[id].loop = loop
    /\ tracks_'[id].volume = (globalVolume_.music * tracks_[id].VOLUME) \div 100
    /\ tracks_'[id].status = "Playing"
    /\ \A k \in DOMAIN tracks_ \ {id} : tracks_'[k] = tracks_[k]
C14_PlayStartsTrack ==
    [][\A id \in ID, loop \in BOOLEAN :
        (lastOp' = "MusicPlayer::play" /\ MapFind(tracks_, id))
        => /\ \A pos \in SourcePositions :
                MusicPlayer_play(pos, id, loop) => PlayedTrack(pos, id, loop)
           /\ MusicPlayer_playAtListener(id, loop)
                => PlayedTrack(<<listener[1], -listener[2]>>, id, loop)]_vars

\* C15: MusicPlayer::unload(id) on a loaded id removes id whatever its status
\* and leaves every other track as it was; a load(path, properties, id) that
\* follows it, with a file that opens, leaves id loaded with the nominal
\* volume of the new properties.
C15_UnloadThenLoadAnew ==
    [][/\ lastOp' = "MusicPlayer::unload" =>
            \A id \in ID :
                (MapFind(tracks_, id) /\ MusicPlayer_unload(id))
                => OthersKept(tracks_, tracks_', id)
       /\ (lastOp = "MusicPlayer::unload" /\ lastOp' = "MusicPlayer::load") =>
            \A id \in ID, f \in GoodFiles, p \in PropertiesInputs :
                (~MapFind(tracks_, id) /\ MusicPlayer_load(f, p, id))
                => /\ MapFind(tracks_', id)
                   /\ tracks_'[id].VOLUME = p.volume_]_vars

\* a playing track was unloaded: the other track is still playing
C15_Witness ==
    /\ lastOp = "MusicPlayer::unload"
    /\ \E k \in ID :
        /\ DOMAIN tracks_ = {k}
        /\ tracks_[k].status = "Playing"
        /\ tracks_[k].VOLUME = 40

\* C16: after MusicPlayer::stop() every loaded track is Stopped; stop(id) on a
\* loaded id stops track id and leaves the status of every other track as it
\* was; neither call removes a track or changes a volume.
SameButStatus(t, u) == [t EXCEPT !.status = u.status] = u
C16_StopKeepsTracks ==
    [][/\ MusicPlayer_stopAll
            => /\ DOMAIN tracks_' = DOMAIN tracks_
               /\ \A k \in DOMAIN tracks_ :
                    /\ tracks_'[k].status = "Stopped"
                    /\ SameButStatus(tracks_[k], tracks_'[k])
               /\ globalVolume_' = globalVolume_
       /\ \A id \in ID :
            (lastOp' = "MusicPlayer::stop(id)" /\ MapFind(tracks_, id)
                /\ MusicPlayer_stop(id))
            => /\ DOMAIN tracks_' = DOMAIN tracks_
               /\ tracks_'[id].status = "Stopped"
               /\ SameButStatus(tracks_[id], tracks_'[id])
               /\ \A k \in DOMAIN tracks_ \ {id} : tracks_'[k] = tracks_[k]
               /\ globalVolume_' = globalVolume_]_vars

\* stop(id) has stopped one track while the other one is paused
C16_Witness ==
    /\ lastOp = "MusicPlayer::stop(id)"
    /\ \E a, b \in DOMAIN tracks_ :
        /\ tracks_[a].status = "Stopped" /\ tracks_[a].file # NoFile
        /\ tracks_[b].status = "Paused"

\* what every ResourceHolder call keeps: the ids on record as stored are the
\* keys of the map, and unload(id) removes id and nothing else
HolderBookkeeping ==
    /\ stored' = DOMAIN resourceMap_'
    /\ \A id \in ID :
        (lastOp' = "ResourceHolder::unload" /\ ResourceHolder_unload(id))
        => /\ ~MapFind(resourceMap_', id)
           /\ \A k \in DOMAIN resourceMap_ \ {id} :
                MapFind(resourceMap_', k) /\ resourceMap_'[k] = resourceMap_[k]
\* get(id) hands out the resource stored under id
GetHit(id) ==
    /\ MapFind(resourceMap_, id)
    /\ returned' = resourceMap_[id]
    /\ returned' # NoFile
\* get(id) returns to its caller, with a null pointer
GetReportsAbsence == ~crashed' /\ returned' = NoFile

\* C17 as claimed: in either build, get(id) returns the stored resource when
\* a load for id has succeeded with no unload(id) since, and reports absence
\* otherwise; unload(id) leaves the entries of the other ids as they were.
C17_GetIffStored ==
    [][/\ HolderBookkeeping
       /\ \A id \in ID :
            (lastOp' = "ResourceHolder::get" /\ ResourceHolder_get(id))
            => IF id \in stored THEN GetHit(id) ELSE GetReportsAbsence]_vars

\* C17 amended: get(id) returns the stored resource when a load for id has
\* succeeded with no unload(id) since; otherwise the debug build returns null
\* and caches one message, while the release build promises nothing (the
\* lookup is unchecked); unload(id) leaves the entries of the other ids as
\* they were.
C17_GetIffStoredInDebug ==
    [][/\ HolderBookkeeping
       /\ \A id \in ID :
            (lastOp' = "ResourceHolder::get" /\ ResourceHolder_get(id))
            => IF id \in stored THEN GetHit(id)
               ELSE debug => (GetReportsAbsence /\ OneMessageCached)]_vars

\* the debug build has answered a get of an id that is not stored with null,
\* while a resource is stored under the other id
C17_Witness ==
    /\ debug
    /\ lastOp = "ResourceHolder::get"
    /\ returned = NoFile
    /\ messages_ = <<"ae::ResourceHolder::get - Unable to find resource">>
    /\ \E k \in ID : stored = {k} /\ resourceMap_ = [x \in {k} |-> "b.ogg"]

\* a load that has failed: the map is as it was, the debug build has cached
\* one message and the release build has changed nothing
FailedLoad ==
    /\ resourceMap_' = resourceMap_
    /\ NothingElseChanged
    /\ IF debug THEN OneMessageCached ELSE messages_' = messages_

\* C18: a ResourceHolder::load (any of the three overloads) whose file does
\* not load leaves the map of stored resources as it was, an entry stored
\* under the same id included; the debug build appends exactly one message to
\* the log, the release build changes nothing.
C18_FailedLoadStoresNothing ==
    [][\A id \in ID, f \in HolderFiles :
        lastOp' = "ResourceHolder::load" =>
        /\ (~loadFromFile(f) /\ ResourceHolder_load(f, id)) => FailedLoad
        /\ \A t \in ShaderFiles :
            /\ (~loadFromFileT(f, t) /\ ResourceHolder_loadT(f, t, id))
                => FailedLoad
            /\ \A k \in ShaderFiles :
                (~loadFromFileTK(f, t, k) /\ ResourceHolder_loadTK(f, t, k, id))
                => FailedLoad]_vars

\* a load with two more arguments has failed on a holder that has a resource
\* under every id
C18_Witness ==
    /\ debug
    /\ lastOp = "ResourceHolder::load"
    /\ messages_ = <<"ae::ResourceHolder::load<T,K> - Failed to load \"a.ogg\"">>
    /\ DOMAIN resourceMap_ = ID

\* C19: the global volume of each player lies in [0, 100] in every state: it
\* is 100 after construction, and setGlobalVolume(g) leaves it at
\* clamp(g, 0, 100) for every g, below 0 and above 100 included.
C19_GlobalVolumeClamped ==
    /\ globalVolume_ = [music |-> 100, sound |-> 100]
    /\ [](globalVolume_.music \in 0..100 /\ globalVolume_.sound \in 0..100)
    /\ [][\A g \in VolumeInputs :
            /\ MusicPlayer_setGlobalVolume(g)
                => globalVolume_'.music = Clamp0to100(g)
            /\ SoundPlayer_setGlobalVolume(g)
                => globalVolume_'.sound = Clamp0to100(g)]_vars

\* the music player was set below 0 and the sound player inside the range
C19_Witness ==
    /\ lastOp = "SoundPlayer::setGlobalVolume"
    /\ globalVolume_ = [music |-> 0, sound |-> 50]
    /\ \E id \in DOMAIN tracks_ : tracks_[id].volume = 0
    /\ sounds_ # <<>>

\* minDistance3D * minDistance3D = minDistance2D * minDistance2D + z * z at
\* the listener's current depth z
DepthCurrent(p) ==
    p.minDistance3d_ = p.minDistance2d_ * p.minDistance2d_ + listener[3] * listener[3]

\* C20: in every state every AudioProperties object, those stored in a player
\* included, has minDistance3D^2 = minDistance2D^2 + z^2 for the current
\* depth z of the listener, also when the depth has changed since the
\* object's minDistance2D was set.
C20_MinDistance3DFollowsListener ==
    /\ DepthCurrent(gameProperties)
    /\ \A id \in DOMAIN soundProperties_ : DepthCurrent(soundProperties_[id])

\* the fields of p and q are equal, but for those named in fields
SameBut(p, q, fields) ==
    \A f \in DOMAIN p \ fields : p[f] = q[f]
AllFields ==
    {"volume_", "attenuation_", "pitch_", "minDistance2d_", "minDistance3d_",
     "relativeToListener_"}

\* C21: the constructor and every setter of AudioProperties accept every
\* input: the volume is stored clamped to [0, 100], the attenuation raised to
\* at least 0, the minimum 2D distance raised to at least 1, the pitch and the
\* relative flag as given; a setter changes its own field only
\* (setMinDistance2D also minDistance3D).
C21_SettersClampOwnField ==
    [][/\ lastOp' = "AudioProperties::AudioProperties" =>
            \A v \in VolumeInputs, a \in AttenuationInputs, p \in PitchInputs,
               d \in MinDistanceInputs, r \in BOOLEAN :
                Game_AudioPropertiesWith(v, a, p, d, r)
                => /\ DOMAIN gameProperties' = AllFields
                   /\ gameProperties'.volume_ = Clamp0to100(v)
                   /\ gameProperties'.attenuation_ = (IF a < 0 THEN 0 ELSE a)
                   /\ gameProperties'.minDistance2d_ = (IF d < 1 THEN 1 ELSE d)
                   /\ gameProperties'.pitch_ = p
                   /\ gameProperties'.relativeToListener_ = r
       /\ lastOp' = "AudioProperties::setVolume" => \A v \in VolumeInputs :
            Game_setVolume(v)
            => /\ gameProperties'.volume_ = Clamp0to100(v)
               /\ SameBut(gameProperties, gameProperties', {"volume_"})
       /\ lastOp' = "AudioProperties::setAttenuation" => \A a \in AttenuationInputs :
            Game_setAttenuation(a)
            => /\ gameProperties'.attenuation_ = (IF a < 0 THEN 0 ELSE a)
               /\ SameBut(gameProperties, gameProperties', {"attenuation_"})
       /\ lastOp' = "AudioProperties::setMinDistance2D" => \A d \in MinDistanceInputs :
            Game_setMinDistance2D(d)
            => /\ gameProperties'.minDistance2d_ = (IF d < 1 THEN 1 ELSE d)
               /\ SameBut(gameProperties, gameProperties',
                          {"minDistance2d_", "minDistance3d_"})
       /\ lastOp' = "AudioProperties::setPitch" => \A p \in PitchInputs :
            Game_setPitch(p)
            => /\ gameProperties'.pitch_ = p
               /\ SameBut(gameProperties, gameProperties', {"pitch_"})
       /\ lastOp' = "AudioProperties::setRelativeToListener" => \A r \in BOOLEAN :
            Game_setRelativeToListener(r)
            => /\ gameProperties'.relativeToListener_ = r
               /\ SameBut(gameProperties, gameProperties', {"relativeToListener_"})
      ]_vars

\* a negative attenuation was given last: it is stored as 0, next to a volume
\* that was given above 100 and a distance that was given below 1
C21_Witness ==
    /\ lastOp = "AudioProperties::setAttenuation"
    /\ gameProperties.attenuation_ = 0
    /\ gameProperties.volume_ = 100
    /\ gameProperties.minDistance2d_ = 1
    /\ gameProperties.pitch_ = -1
    /\ gameProperties.relativeToListener_

\* C22: after setListenerPosition(p), getListenerPosition() returns exactly
\* p, for every player since the listener is the process-wide one, and the
\* depth z of the listener is what it was.
C22_ListenerRoundTrip ==
    [][lastOp' = "setListenerPosition" =>
        \A pos \in ListenerPositions :
            AudioPlayer_setListenerPosition(pos)
            => /\ <<listener'[1], -listener'[2]>> = pos
               /\ listener'[3] = listener[3]
               /\ UNCHANGED playerVars]_vars

\* the listener was moved while an effect is playing at the old position
C22_Witness ==
    /\ lastOp = "setListenerPosition"
    /\ AudioPlayer_getListenerPosition = <<3, 4>>
    /\ listener[3] = 300
    /\ sounds_ # <<>>
    /\ sounds_[1].status = "Playing"
    /\ sounds_[1].position = <<0, 0, 0>>

\* C23: getCachedMessages returns the messages cached since the previous
\* drain, in the order they were cached, and leaves the buffer empty: a drain
\* returns the whole buffer and empties it, a drain that follows a drain
\* returns the empty sequence, and every other call leaves the buffer as it
\* is or appends one message to it, so that a message stays in the buffer
\* from the call that cached it to the one drain that returns it.
C23_DrainReturnsCachedInOrder ==
    [][/\ lastOp' = "getCachedMessages"
          => /\ drained' = messages_
             /\ messages_' = <<>>
             /\ lastOp = "getCachedMessages" => drained' = <<>>
       /\ lastOp' # "getCachedMessages"
          => \/ messages_' = messages_
             \/ OneMessageCached
       /\ lastOp' = "cacheMessage"
          => \E m \in LogInputs : messages_' = Append(messages_, m)]_vars

\* a drain returned two messages in the order they were cached
C23_Witness ==
    /\ lastOp = "getCachedMessages"
    /\ drained = <<"second", "first">>
    /\ messages_ = <<>>
    /\ MapFind(resourceMap_, 1)

\* row n + 1 of Pascal's triangle from row n, by the addition rule
RECURSIVE AddNeighbours(_, _)
AddNeighbours(above, k) ==
    IF k > Len(above) + 1 THEN <<>>
    ELSE <<(IF k > 1 THEN above[k - 1] ELSE 0)
           + (IF k <= Len(above) THEN above[k] ELSE 0)>>
         \o AddNeighbours(above, k + 1)

\* the binomial coefficients C(n, 0), ..., C(n, n)
RECURSIVE Binomials(_)
Binomials(n) == IF n = 0 THEN <<1>> ELSE AddNeighbours(Binomials(n - 1), 1)

\* C24: when no product of pascalTriangle(n) leaves the range of int, which
\* is so for n = 22, the vector returned has n + 1 entries, entry k is the
\* binomial coefficient C(n, k) (the one entry 1 for n = 0), and every
\* division of the first loop is exact.
C24_PascalRowIsBinomials ==
    /\ [](math.n = 22 => ~math.overflowed)
    /\ [](math.pc = "returned" /\ ~math.overflowed
            => /\ Len(math.row) = math.n + 1
               /\ math.row = Binomials(math.n))
    /\ [][math.pc = "first" /\ math'.pc = "first" /\ ~math'.overflowed
            => /\ math.row[math.i] * (math.n - math.i + 1) % math.i = 0
               /\ math'.row[math.i + 1] * math.i
                    = math.row[math.i] * (math.n - math.i + 1)]_vars

\* the row of the documented example has been returned
C24_Witness ==
    /\ math.pc = "returned"
    /\ math.n = 22
    /\ ~math.overflowed
    /\ Len(math.row) = 23
    /\ math.row[12] = 705432
    /\ math.row[23] = 1

\* C25: a MusicPlayer::load of an id that is not loaded, whether its file
\* opens or not, leaves every track that was loaded before as it was: its
\* file, its attributes, its nominal volume and its status.
C25_LoadKeepsOtherTracks ==
    [][lastOp' = "MusicPlayer::load" =>
        \A id \in ID, f \in Files :
            (/\ ~MapFind(tracks_, id)
             /\ \/ MusicPlayer_loadDefault(f, id)
                \/ \E p \in PropertiesInputs : MusicPlayer_load(f, p, id))
            => \A other \in DOMAIN tracks_ :
                    /\ MapFind(tracks_', other)
                    /\ tracks_'[other] = tracks_[other]]_vars

\* C26: in every reachable state of a SoundPlayer each effect of the list
\* has the volume global volume * volume of the properties stored under its
\* id / 100, for the global volume and the properties of that state.
C26_EffectVolumeFollowsGlobal ==
    \A i \in DOMAIN sounds_ :
        /\ MapFind(soundProperties_, sounds_[i].id)
        /\ sounds_[i].volume =
                ScaleVolume(globalVolume_.sound,
                            soundProperties_[sounds_[i].id].volume_)

\* two effects of different nominal volumes (40 and 100) after the global
\* volume was set to 50
C26_Witness ==
    /\ lastOp = "SoundPlayer::setGlobalVolume"
    /\ globalVolume_.sound = 50
    /\ Len(sounds_) = 2
    /\ sounds_[1].volume = 20
    /\ sounds_[2].volume = 50
    /\ sounds_[1].status = "Playing"

\* C27: in every reachable state of a SoundPlayer the id of every effect of
\* the list has a properties record and a buffer in the cache, and the
\* effect plays that buffer.
C27_EffectHasPropertiesAndBuffer ==
    \A i \in DOMAIN sounds_ :
        /\ MapFind(soundProperties_, sounds_[i].id)
        /\ MapFind(soundBuffers_, sounds_[i].id)
        /\ sounds_[i].buffer = GetResource(soundBuffers_, sounds_[i].id)

\* C28: in every reachable state of a MusicPlayer every track that is
\* playing or paused has the volume global volume * its nominal volume / 100.
C28_TrackVolumeFollowsGlobal ==
    \A id \in DOMAIN tracks_ :
        tracks_[id].status \in {"Playing", "Paused"}
        => tracks_[id].volume = ScaleVolume(globalVolume_.music, tracks_[id].VOLUME)

\* a paused track of nominal volume 40 after the global volume was set to 50,
\* next to a playing one
C28_Witness ==
    /\ lastOp = "MusicPlayer::setGlobalVolume"
    /\ globalVolume_.music = 50
    /\ \E id \in DOMAIN tracks_ :
            /\ tracks_[id].status = "Paused"
            /\ tracks_[id].VOLUME = 40
            /\ tracks_[id].volume = 20
    /\ \E id \in DOMAIN tracks_ : tracks_[id].status = "Playing"

\* C29: constructing a MusicPlayer or a SoundPlayer sets the global volume
\* of that player to 100 and the listener to (0, 0, 300), so that
\* getListenerPosition() returns (0, 0) afterwards, wherever the listener had
\* been moved through a player before; the other player keeps its volume.
C29_ConstructionResetsListener ==
    [][lastOp' = "construct" =>
        \A player \in Players :
            Game_construct(player)
            => /\ globalVolume_'[player] = 100
               /\ listener' = <<0, 0, 300>>
               /\ <<listener'[1], -listener'[2]>> = <<0, 0>>
               /\ \A other \in Players \ {player} :
                    globalVolume_'[other] = globalVolume_[other]]_vars

\* a SoundPlayer was constructed while the MusicPlayer plays a track at half
\* the volume
C29_Witness ==
    /\ lastOp = "construct"
    /\ AudioPlayer_getListenerPosition = <<0, 0>>
    /\ listener[3] = 300
    /\ globalVolume_ = [music |-> 50, sound |-> 100]
    /\ MapFind(tracks_, 1)
    /\ tracks_[1].status = "Playing"
    /\ tracks_[1].position = <<3, -4, 0>>

\* C30: a ResourceHolder::load (any overload) on an id that is present, with
\* a file that loads, leaves the resource stored under the id and the number
\* of entries as they were; the resource it has opened is discarded.
C30_LoadOfPresentIdKeepsFirst ==
    [][lastOp' = "ResourceHolder::load" =>
        \A id \in DOMAIN resourceMap_, f \in HolderFiles \ BadFiles :
            (\/ ResourceHolder_load(f, id)
             \/ \E t \in ShaderFiles \ BadFiles :
                    \/ ResourceHolder_loadT(f, t, id)
                    \/ \E k \in ShaderFiles \ BadFiles :
                            ResourceHolder_loadTK(f, t, k, id))
            => /\ MapFind(resourceMap_', id)
               /\ resourceMap_'[id] = resourceMap_[id]
               /\ Cardinality(DOMAIN resourceMap_') = Cardinality(DOMAIN resourceMap_)
               /\ resourceMap_' = resourceMap_
               /\ discarded' = f]_vars

\* "b.ogg" was loaded under id 1, which holds "a.ogg", and was discarded
C30_Witness ==
    /\ lastOp = "ResourceHolder::load"
    /\ discarded = "b.ogg"
    /\ MapFind(resourceMap_, 1)
    /\ resourceMap_[1] = "a.ogg"
    /\ Cardinality(DOMAIN resourceMap_) = 1

C32_GlobalVolumeIsPerPlayer ==
    [][/\ lastOp' = "MusicPlayer::setGlobalVolume"
          => \A g \in VolumeInputs :
                MusicPlayer_setGlobalVolume(g)
                => /\ globalVolume_'.sound = globalVolume_.sound
                   /\ sounds_' = sounds_
                   /\ UNCHANGED soundVars
       /\ lastOp' = "SoundPlayer::setGlobalVolume"
          => \A g \in VolumeInputs :
                SoundPlayer_setGlobalVolume(g)
                => /\ globalVolume_'.music = globalVolume_.music
                   /\ tracks_' = tracks_]_vars

\* the music volume was set to 0 while an effect plays at the sound
\* player's global volume 50
C32_Witness ==
    /\ lastOp = "MusicPlayer::setGlobalVolume"
    /\ globalVolume_ = [music |-> 0, sound |-> 50]
    /\ MapFind(tracks_, 1)
    /\ tracks_[1].status = "Playing"
    /\ tracks_[1].volume = 0
    /\ sounds_ # <<>>
    /\ sounds_[1].status = "Playing"
    /\ sounds_[1].volume = 20

\* C33: with 32-bit int, no product row[i - 1] * (n - i + 1) of
\* pascalTriangle(n) exceeds 2^31 - 1 for n in 0..29, and a product of
\* pascalTriangle(30) does, although every entry of row 30, the sum of two
\* neighbours of row 29, is at most 2^31 - 1.
C33_FirstOverflowAtThirty ==
    /\ [](math.n <= 29 => ~math.overflowed)
    /\ [](math.n = 30 /\ math.pc \in {"second", "returned"} => math.overflowed)
    /\ [](math.n = 30 =>
            \A k \in 2..30 : Binomials(29)[k - 1] <= INT_MAX - Binomials(29)[k])
    /\ [][math.pc = "first" /\ math'.pc = "first" /\ math.n <= 29
            => /\ math.row[math.i] <= INT_MAX \div (math.n - math.i + 1)
               /\ math.row[math.i] >= 0]_vars

\* pascalTriangle(30) has returned after its last product left the range and
\* wrapped
C33_Witness ==
    /\ math.pc = "returned"
    /\ math.n = 30
    /\ math.overflowed
    /\ ~crashed
    /\ math.row[15] = 145422675
    /\ math.row[16] = -131213633

====
